---- MODULE Spec2Model ----
(***************************************************************************)
(* Crontab editor (main.go, static/js/script.js).                          *)
(*                                                                         *)
(* Text is modelled as Go strings are: a sequence of characters, each a    *)
(* one-character string.  The backing store (the user's crontab) holds one *)
(* such text; "crontab -l" returns it and "crontab <file>" replaces it.    *)
(***************************************************************************)
EXTENDS Integers, Sequences, FiniteSets, TLC

(***************************************************************************)
(* strings, bufio and regexp as main.go uses them                          *)
(***************************************************************************)

\* The characters Go's regexp class \s matches: [\t\n\f\r ].
RegexSpace == {" ", "\t", "\n", "\f", "\r"}

\* The characters strings.TrimSpace removes, restricted to the model's
\* alphabet (unicode.IsSpace also holds of \v, U+0085 and U+00A0, which
\* no text of the model contains).
UnicodeSpace == {" ", "\t", "\n", "\f", "\r"}

NL == <<"\n">>
SP == <<" ">>
HashPrefix == <<"#">>
HashSpacePrefix == <<"#", " ">>
StarPrefix == <<"*">>

\* strings.HasPrefix(s, p)
HasPrefix(s, p) == Len(s) >= Len(p) /\ SubSeq(s, 1, Len(p)) = p

\* strings.Contains(s, c) for a one-character c
Contains(s, c) == \E i \in 1..Len(s) : s[i] = c

RECURSIVE TrimLeft(_)
TrimLeft(s) ==
    IF s = <<>> \/ Head(s) \notin UnicodeSpace THEN s ELSE TrimLeft(Tail(s))

RECURSIVE TrimRight(_)
TrimRight(s) ==
    IF s = <<>> \/ s[Len(s)] \notin UnicodeSpace THEN s
    ELSE TrimRight(SubSeq(s, 1, Len(s) - 1))

\* strings.TrimSpace(s)
TrimSpace(s) == TrimRight(TrimLeft(s))

\* The first index >= i of s holding a line feed, Len(s)+1 when there is none.
RECURSIVE IndexNewline(_, _)
IndexNewline(s, i) ==
    IF i > Len(s) \/ s[i] = "\n" THEN i ELSE IndexNewline(s, i + 1)

\* bufio.ScanLines drops one trailing carriage return of each line.
DropCR(l) ==
    IF l # <<>> /\ l[Len(l)] = "\r" THEN SubSeq(l, 1, Len(l) - 1) ELSE l

\* bufio.Scanner over the text with the default split function: the lines
\* between line feeds, a final unterminated line included when non-empty.
RECURSIVE ScanLines(_)
ScanLines(s) ==
    IF s = <<>> THEN <<>>
    ELSE LET i == IndexNewline(s, 1)
         IN  <<DropCR(SubSeq(s, 1, i - 1))>> \o ScanLines(SubSeq(s, i + 1, Len(s)))

\* The end (exclusive) of the run of \S characters of s that starts at i.
RECURSIVE SpanNonSpace(_, _)
SpanNonSpace(s, i) ==
    IF i > Len(s) \/ s[i] \in RegexSpace THEN i ELSE SpanNonSpace(s, i + 1)

\* The end (exclusive) of the run of \s characters of s that starts at i.
RECURSIVE SpanSpace(_, _)
SpanSpace(s, i) ==
    IF i > Len(s) \/ s[i] \notin RegexSpace THEN i ELSE SpanSpace(s, i + 1)

\* The groups of (\S+)\s+ repeated k times and then (.*)$ matched at i, or
\* <<>> when there is no match.  \S+ and \s+ are followed by the opposite
\* class, so each takes its whole run; (.*) takes the rest and "." matches
\* no line feed.
RECURSIVE MatchGroups(_, _, _)
MatchGroups(s, i, k) ==
    IF k = 0
    THEN LET rest == SubSeq(s, i, Len(s))
         IN  IF Contains(rest, "\n") THEN <<>> ELSE <<rest>>
    ELSE LET j == SpanNonSpace(s, i)
             m == SpanSpace(s, j)
         IN  IF j = i \/ m = j THEN <<>>
             ELSE LET r == MatchGroups(s, m, k - 1)
                  IN  IF r = <<>> THEN <<>> ELSE <<SubSeq(s, i, j - 1)>> \o r

\* cronRegex.FindStringSubmatch(s) for ^(\S+)\s+(\S+)\s+(\S+)\s+(\S+)\s+(\S+)\s+(.*)$ :
\* the whole match and the six groups, or <<>>.
FindStringSubmatch(s) ==
    LET g == MatchGroups(s, 1, 5)
    IN  IF g = <<>> THEN <<>> ELSE <<s>> \o g

\* cronRegex.MatchString(s)
MatchString(s) == FindStringSubmatch(s) # <<>>

(***************************************************************************)
(* CrontabEntry and parseCrontabOutput                                     *)
(***************************************************************************)

CrontabEntry(id, m, rawLine, enabled) ==
    [ID |-> id, Minute |-> m[2], Hour |-> m[3], DayOfMonth |-> m[4],
     Month |-> m[5], DayOfWeek |-> m[6], Command |-> TrimSpace(m[7]),
     RawLine |-> rawLine, Comment |-> <<>>, Enabled |-> enabled]

\* One iteration of the scanner loop of parseCrontabOutput: the entries the
\* line adds (none or one), the entry taking the id given.
ParseLine(line, id) ==
    IF TrimSpace(line) = <<>> THEN <<>>
    ELSE IF HasPrefix(line, HashPrefix)
    THEN IF HasPrefix(line, HashSpacePrefix)
         THEN LET matches == FindStringSubmatch(SubSeq(line, 3, Len(line)))
              IN  IF Len(matches) = 7
                  THEN <<CrontabEntry(id, matches, line, FALSE)>>
                  ELSE <<>>
         ELSE <<>>
    ELSE IF Contains(line, "=") /\ ~HasPrefix(line, StarPrefix) THEN <<>>
    ELSE LET matches == FindStringSubmatch(line)
         IN  IF Len(matches) = 7
             THEN <<CrontabEntry(id, matches, line, TRUE)>>
             ELSE <<>>

RECURSIVE ParseLines(_, _)
ParseLines(lines, id) ==
    IF lines = <<>> THEN <<>>
    ELSE LET e == ParseLine(Head(lines), id)
         IN  e \o ParseLines(Tail(lines), id + Len(e))

\* parseCrontabOutput(output) run without interference, nextEntryID = id at
\* its start: every entry takes the counter's value and advances it by one.
parseCrontabOutput(output, id) == ParseLines(ScanLines(output), id)

(***************************************************************************)
(* updateCrontab: the text it builds                                       *)
(***************************************************************************)

\* fmt.Sprintf("%s %s %s %s %s %s", Minute, Hour, DayOfMonth, Month, DayOfWeek, Command)
FormatTask(e) ==
    e.Minute \o SP \o e.Hour \o SP \o e.DayOfMonth \o SP \o e.Month \o SP
    \o e.DayOfWeek \o SP \o e.Command

\* EntryText with a disabled entry's RawLine commented out whether or not it
\* is a comment already.
EntryTextRecomment(e) ==
    IF e.Enabled THEN FormatTask(e) \o NL
    ELSE IF e.RawLine # <<>> THEN HashSpacePrefix \o e.RawLine \o NL
    ELSE HashSpacePrefix \o FormatTask(e) \o NL

\* EntryText with a disabled entry's line rebuilt from its fields.
EntryTextFromFields(e) ==
    IF e.Enabled THEN FormatTask(e) \o NL
    ELSE IF e.RawLine # <<>> /\ HasPrefix(e.RawLine, HashPrefix)
    THEN e.RawLine \o NL
    ELSE HashSpacePrefix \o FormatTask(e) \o NL

\* What one iteration of the first loop writes, its line feed included.
EntryText(e) ==
    IF e.Enabled THEN FormatTask(e) \o NL
    ELSE IF e.RawLine # <<>> /\ ~HasPrefix(e.RawLine, HashPrefix)
    THEN HashSpacePrefix \o e.RawLine \o NL
    ELSE IF e.RawLine # <<>> /\ HasPrefix(e.RawLine, HashPrefix)
    THEN e.RawLine \o NL
    ELSE HashSpacePrefix \o FormatTask(e) \o NL

\* The first loop: one write per submitted entry, in order.
RECURSIVE EntriesText(_)
EntriesText(entries) ==
    IF entries = <<>> THEN <<>>
    ELSE EntryText(Head(entries)) \o EntriesText(Tail(entries))

\* isManagedComment / found: some submitted entry's RawLine is the line.
IsRawLineOf(line, entries) ==
    \E i \in 1..Len(entries) : entries[i].RawLine = line

\* foundInUpdated of the task-line branch.
FoundInUpdated(line, entries) ==
    \E i \in 1..Len(entries) :
        \/ entries[i].RawLine = line
        \/ /\ HasPrefix(line, HashSpacePrefix)
           /\ entries[i].Enabled
           /\ FormatTask(entries[i]) = SubSeq(line, 3, Len(line))

\* KeepLine keeping the task lines no submitted entry claims.
KeepLineUnclaimed(line, entries) ==
    LET trimmedLine == TrimSpace(line)
    IN  IF trimmedLine = <<>> \/ HasPrefix(trimmedLine, HashPrefix)
        THEN /\ ~IsRawLineOf(line, entries)
             /\ ~MatchString(line)
             /\ ~HasPrefix(line, HashSpacePrefix)
        ELSE ~FoundInUpdated(line, entries)

\* Whether the second loop writes the line read from the fresh crontab.
KeepLine(line, entries) ==
    LET trimmedLine == TrimSpace(line)
    IN  IF trimmedLine = <<>> \/ HasPrefix(trimmedLine, HashPrefix)
        THEN /\ ~IsRawLineOf(line, entries)
             /\ ~MatchString(line)
             /\ ~HasPrefix(line, HashSpacePrefix)
        ELSE ~MatchString(line) /\ ~FoundInUpdated(line, entries)

\* The second loop over the lines of the fresh crontab.
RECURSIVE KeptText(_, _)
KeptText(lines, entries) ==
    IF lines = <<>> THEN <<>>
    ELSE (IF KeepLine(Head(lines), entries) THEN Head(lines) \o NL ELSE <<>>)
         \o KeptText(Tail(lines), entries)

\* BuildContent with the lines kept from the crontab written first.
BuildContentKeptFirst(entries, output) ==
    KeptText(ScanLines(output), entries) \o EntriesText(entries)

\* newCrontabContent.String() once both loops have run; output is what
\* "crontab -l" returned (empty when there is no crontab).
BuildContent(entries, output) ==
    EntriesText(entries) \o KeptText(ScanLines(output), entries)

(***************************************************************************)
(* Bounds and the inputs the model draws from                              *)
(***************************************************************************)

\* Lines of the crontab the server starts on.
MaxLines == 2
\* Steps the browser takes in one run: the requests it sends and the edits
\* it makes, an edit only while a request can still follow it.
MaxSteps == 4

\* "0 3 * * * x": an active task in canonical form
LineFoo == <<"0", " ", "3", " ", "*", " ", "*", " ", "*", " ", "x">>
\* "0  3 * * * x": an active task written with two spaces after the minute
LineWide == <<"0", " ", " ", "3", " ", "*", " ", "*", " ", "*", " ", "x">>
\* "# 0 3 * * * A=1 x": a disabled task whose command holds "="
LineOffEq == <<"#", " ", "0", " ", "3", " ", "*", " ", "*", " ", "*", " ", "A", "=", "1", " ", "x">>
\* "FOO=bar": an environment assignment
LineEnv == <<"F", "O", "O", "=", "b", "a", "r">>
\* "A=1 b c d e f": an environment assignment of six tokens
LineEnvSix == <<"A", "=", "1", " ", "b", " ", "c", " ", "d", " ", "e", " ", "f">>
\* "#note": a comment after "#"
LineTag == <<"#", "n", "o", "t", "e">>
\* "# note": a comment after "# "
LineNote == <<"#", " ", "n", "o", "t", "e">>

StoreLines ==
    {LineFoo, LineWide, LineOffEq, LineEnv, LineEnvSix, LineTag, LineNote}

\* The text "crontab -l" prints for the lines given: each ends in a line feed.
RECURSIVE JoinLines(_)
JoinLines(lines) ==
    IF lines = <<>> THEN <<>> ELSE Head(lines) \o NL \o JoinLines(Tail(lines))

StoreTexts ==
    {JoinLines(ls) : ls \in UNION {[1..n -> StoreLines] : n \in 0..MaxLines}}

\* The changes to a row's text inputs the model makes: the minute emptied,
\* the command replaced by "z".
InputChanges == {<<"minute", <<>>>>, <<"command", <<"z">>>>}

(***************************************************************************)
(* State                                                                   *)
(***************************************************************************)

VARIABLES
    store,                  \* the crontab's text ("crontab -l" prints it)
    hasCrontab,             \* FALSE: "no crontab for <user>"
    nextEntryID,            \* main.go: var nextEntryID int
    currentCrontabEntries,  \* main.go: var currentCrontabEntries []CrontabEntry
    tmpFiles,               \* the files os.CreateTemp left: {<<name, content>>}
    crontabEntries,         \* script.js: let crontabEntries
    edits,                  \* edits made in the browser so far
    requests,               \* requests sent so far
    last,                   \* the updateCrontab request that ended last:
                            \*   status     its response
                            \*   submitted  updatedEntries
                            \*   fresh      the output of its "crontab -l"
                            \*   content    newCrontabContent at its return
                            \*   confirmed  the entries it returned
                            \*   again      the crontab it merged into is the one
                            \*              the request before it built from the
                            \*              same entries
                            \*   unchanged  the crontab is as it was at its start
                            \*   lists, replaces  its runs of "crontab -l" and
                            \*              of "crontab <file>"
                            \*   tmpLeft    the files it created and left
    parsers                 \* the concurrent runs of parseCrontabOutput

vars ==
    <<store, hasCrontab, nextEntryID, currentCrontabEntries, tmpFiles,
      crontabEntries, edits, requests, last, parsers>>

\* Requests the server handles at once, and requests each of them serves.
NumParsers == 2
MaxRuns == 2

\* No updateCrontab has ended yet.
NoRequest ==
    [status |-> "none", submitted |-> <<>>, fresh |-> <<>>, content |-> <<>>,
     confirmed |-> <<>>, again |-> FALSE, unchanged |-> TRUE, lists |-> 0,
     replaces |-> 0, tmpLeft |-> {}]

IdleParser ==
    [pc |-> "idle", lines |-> <<>>, entries |-> <<>>, reg |-> 0, runs |-> 0,
     returned |-> <<>>]

Init ==
    /\ hasCrontab \in BOOLEAN
    /\ store \in StoreTexts
    /\ ~hasCrontab => store = <<>>
    /\ nextEntryID = 1
    /\ currentCrontabEntries = <<>>
    /\ tmpFiles = {}
    /\ crontabEntries = <<>>
    /\ edits = 0
    /\ requests = 0
    /\ last = NoRequest
    /\ parsers = [p \in 1..NumParsers |-> IdleParser]

serverVars == <<store, hasCrontab, nextEntryID, currentCrontabEntries, tmpFiles>>

(***************************************************************************)
(* GET /api/crontab: getCrontab, and fetchCrontab of script.js             *)
(***************************************************************************)

\* "crontab -l" succeeds: the entries are parsed, kept and returned.
GetCrontab ==
    /\ edits + requests < MaxSteps /\ hasCrontab
    /\ currentCrontabEntries' = parseCrontabOutput(store, nextEntryID)
    /\ nextEntryID' = nextEntryID + Len(currentCrontabEntries')
    /\ crontabEntries' = currentCrontabEntries'
    /\ requests' = requests + 1
    /\ UNCHANGED <<store, hasCrontab, tmpFiles, edits, last, parsers>>

\* "no crontab for": an empty list is returned, nothing is parsed.
GetCrontabEmpty ==
    /\ edits + requests < MaxSteps /\ ~hasCrontab
    /\ crontabEntries' = <<>>
    /\ requests' = requests + 1
    /\ UNCHANGED <<edits, last, parsers>> /\ UNCHANGED serverVars

\* "crontab -l" fails otherwise: 500, the browser keeps what it shows.
GetCrontabFail ==
    /\ edits + requests < MaxSteps
    /\ requests' = requests + 1
    /\ UNCHANGED <<crontabEntries, edits, last, parsers>> /\ UNCHANGED serverVars

(***************************************************************************)
(* The browser's edits (script.js)                                         *)
(***************************************************************************)

\* The page fetches the crontab when it loads, before any edit or save.
Loaded == requests > 0

\* What every edit shares: the page has loaded, the budget allows the edit,
\* and the server is not involved.
ClientStep ==
    /\ Loaded
    /\ edits + requests + 1 < MaxSteps
    /\ edits' = edits + 1
    /\ UNCHANGED <<requests, last, parsers>> /\ UNCHANGED serverVars

\* The checkbox of row i is clicked.
HandleToggleEnable(i) ==
    /\ ClientStep
    /\ crontabEntries' = [crontabEntries EXCEPT ![i].Enabled = ~@]

\* A text input of row i is given another value.
HandleInputChange(i, field, value) ==
    /\ ClientStep
    /\ crontabEntries' =
          IF field = "minute" THEN [crontabEntries EXCEPT ![i].Minute = value]
          ELSE [crontabEntries EXCEPT ![i].Command = value]
    /\ crontabEntries' # crontabEntries

\* Date.now(): a time stamp, later at each edit and above every id the
\* server assigns.
DateNow == 1000000 + edits

\* The add button: a row of stars with no command and no rawLine.
AddTask ==
    /\ ClientStep
    /\ crontabEntries' =
          Append(crontabEntries,
                 [ID |-> DateNow, Minute |-> StarPrefix, Hour |-> StarPrefix,
                  DayOfMonth |-> StarPrefix, Month |-> StarPrefix,
                  DayOfWeek |-> StarPrefix, Command |-> <<>>, RawLine |-> <<>>,
                  Comment |-> <<>>, Enabled |-> TRUE])

\* The delete button of row i: the entries with its id are filtered out.
RemoveTask(i) ==
    /\ ClientStep
    /\ crontabEntries' =
          SelectSeq(crontabEntries, LAMBDA e : e.ID # crontabEntries[i].ID)

(***************************************************************************)
(* POST /api/crontab: updateCrontab                                        *)
(***************************************************************************)

\* The steps of updateCrontab that can fail, in the order it takes them;
\* "none": none does.
Steps == <<"decode", "list", "create", "write", "install", "confirm", "none">>

StepIndex(step) == CHOOSE k \in 1..Len(Steps) : Steps[k] = step

\* updateCrontab gets past the step when the failing step comes later.
Passes(step, failing) == StepIndex(step) < StepIndex(failing)

\* DeferredRemove with the removal never registered.
DeferredRemoveSkipped(files, name, created) == files

\* defer os.Remove(tmpfile.Name()), registered once os.CreateTemp has
\* succeeded: the files left when updateCrontab returns.
DeferredRemove(files, name, created) ==
    IF created THEN {f \in files : f[1] # name} ELSE files

\* The content of the file named.
FileContent(files, name) == (CHOOSE f \in files : f[1] = name)[2]

\* The status of the response.
Status(failing) ==
    IF failing = "none" THEN "ok"
    ELSE IF failing = "decode" THEN "bad_request"
    ELSE failing \o "_failed"

\* updateCrontab(w, r) from its first line to its return, `failing` the step
\* that fails.  The body decodes to what the browser holds.
updateCrontab(failing) ==
    /\ Loaded
    /\ edits + requests < MaxSteps
    /\ requests' = requests + 1
    /\ LET decoded == Passes("decode", failing)
           updatedEntries == IF decoded THEN crontabEntries ELSE <<>>
           listed == Passes("list", failing)
           output == IF listed /\ hasCrontab THEN store ELSE <<>>
           created == Passes("create", failing)
           written == Passes("write", failing)
           installed == Passes("install", failing)
           confirmed == Passes("confirm", failing)
           tmpfile == requests + 1
       IN  \E newCrontabContent \in
                {IF listed THEN BuildContent(updatedEntries, output)
                 ELSE IF decoded THEN EntriesText(updatedEntries)
                 ELSE <<>>} :
           LET onDisk ==
                   IF created
                   THEN tmpFiles
                        \cup {<<tmpfile, IF written THEN newCrontabContent ELSE <<>>>>}
                   ELSE tmpFiles
           IN  /\ store' = IF installed THEN FileContent(onDisk, tmpfile) ELSE store
               /\ hasCrontab' = (installed \/ hasCrontab)
               /\ currentCrontabEntries' =
                     IF confirmed THEN parseCrontabOutput(store', nextEntryID)
                     ELSE currentCrontabEntries
               /\ nextEntryID' =
                     IF confirmed THEN nextEntryID + Len(currentCrontabEntries')
                     ELSE nextEntryID
               /\ tmpFiles' = DeferredRemove(onDisk, tmpfile, created)
               /\ last' =
                     [status |-> Status(failing), submitted |-> updatedEntries,
                      fresh |-> output, content |-> newCrontabContent,
                      confirmed |-> IF confirmed THEN currentCrontabEntries' ELSE <<>>,
                      again |-> /\ listed
                                /\ last.status \in {"ok", "confirm_failed"}
                                /\ last.submitted = updatedEntries,
                      unchanged |-> store' = store /\ hasCrontab' = hasCrontab,
                      lists |-> (IF decoded THEN 1 ELSE 0)
                                + (IF installed THEN 1 ELSE 0),
                      replaces |-> IF written THEN 1 ELSE 0,
                      tmpLeft |-> {f \in tmpFiles' : f[1] = tmpfile}]
    /\ UNCHANGED <<crontabEntries, edits, parsers>>

\* Every command and file operation succeeds.
UpdateCrontab == updateCrontab("none")

\* The body does not decode: 400.
UpdateCrontabBadRequest == updateCrontab("decode")
\* "crontab -l" fails while merging: 500.
UpdateCrontabListFail == updateCrontab("list")
\* os.CreateTemp fails: 500.
UpdateCrontabCreateFail == updateCrontab("create")
\* tmpfile.WriteString fails: 500.
UpdateCrontabWriteFail == updateCrontab("write")
\* "crontab <tmpfile>" fails: 500.
UpdateCrontabInstallFail == updateCrontab("install")
\* "crontab -l" of the closing getCrontab fails: 500.
UpdateCrontabConfirmFail == updateCrontab("confirm")

\* The browser and the two handlers, every command and file operation
\* succeeding.
Next ==
    \/ GetCrontab
    \/ GetCrontabEmpty
    \/ \E i \in 1..Len(crontabEntries) : HandleToggleEnable(i)
    \/ \E i \in 1..Len(crontabEntries), c \in InputChanges :
          HandleInputChange(i, c[1], c[2])
    \/ AddTask
    \/ \E i \in 1..Len(crontabEntries) : RemoveTask(i)
    \/ UpdateCrontab

Spec == Init /\ [][Next]_vars

\* The same, every command and file operation free to fail.
NextFaults ==
    \/ Next
    \/ GetCrontabFail
    \/ UpdateCrontabBadRequest
    \/ UpdateCrontabListFail
    \/ UpdateCrontabCreateFail
    \/ UpdateCrontabWriteFail
    \/ UpdateCrontabInstallFail
    \/ UpdateCrontabConfirmFail

\* The crontabs of at most one line.
OneLineTexts == {<<>>} \cup {JoinLines(<<l>>) : l \in StoreLines}

InitFaults == Init /\ store \in OneLineTexts

SpecFaults == InitFaults /\ [][NextFaults]_vars

(***************************************************************************)
(* Requests served at once: net/http runs every handler in a goroutine of  *)
(* its own, and parseCrontabOutput reads and advances nextEntryID with no  *)
(* lock.  Each step below is one access to the shared counter.             *)
(***************************************************************************)

\* What every step of a run shares: only the run and the server's two
\* globals can change.
ParserStep(p, new) ==
    /\ parsers' = [parsers EXCEPT ![p] = new]
    /\ UNCHANGED <<store, hasCrontab, tmpFiles, crontabEntries, edits,
                   requests, last>>

\* A handler reaches parseCrontabOutput with the output of "crontab -l".
ParseStart(p) ==
    /\ parsers[p].pc = "idle" /\ parsers[p].runs < MaxRuns /\ hasCrontab
    /\ ParserStep(p, [parsers[p] EXCEPT !.pc = "scan",
                                         !.lines = ScanLines(store),
                                         !.entries = <<>>])
    /\ UNCHANGED <<nextEntryID, currentCrontabEntries>>

\* One iteration of the scanner loop up to the append: the entry, if the
\* line makes one, takes the value nextEntryID holds now.
ParseScan(p) ==
    /\ parsers[p].pc = "scan" /\ parsers[p].lines # <<>>
    /\ LET e == ParseLine(Head(parsers[p].lines), nextEntryID)
       IN  ParserStep(p, [parsers[p] EXCEPT
                             !.pc = IF e = <<>> THEN "scan" ELSE "load",
                             !.lines = Tail(@),
                             !.entries = @ \o e])
    /\ UNCHANGED <<nextEntryID, currentCrontabEntries>>

\* nextEntryID++ : the load.
ParseLoad(p) ==
    /\ parsers[p].pc = "load"
    /\ ParserStep(p, [parsers[p] EXCEPT !.pc = "store", !.reg = nextEntryID])
    /\ UNCHANGED <<nextEntryID, currentCrontabEntries>>

\* nextEntryID++ : the store of the value loaded, plus one.
ParseStore(p) ==
    /\ parsers[p].pc = "store"
    /\ nextEntryID' = parsers[p].reg + 1
    /\ ParserStep(p, [parsers[p] EXCEPT !.pc = "scan"])
    /\ UNCHANGED currentCrontabEntries

\* The scanner is at the end: the entries are returned, and getCrontab
\* keeps them in currentCrontabEntries and sends them.
ParseReturn(p) ==
    /\ parsers[p].pc = "scan" /\ parsers[p].lines = <<>>
    /\ currentCrontabEntries' = parsers[p].entries
    /\ ParserStep(p, [parsers[p] EXCEPT !.pc = "idle", !.runs = @ + 1,
                                         !.returned = parsers[p].entries])
    /\ UNCHANGED nextEntryID

NextIds ==
    \E p \in 1..NumParsers :
        \/ ParseStart(p)
        \/ ParseScan(p)
        \/ ParseLoad(p)
        \/ ParseStore(p)
        \/ ParseReturn(p)

SpecIds == Init /\ [][NextIds]_vars

(***************************************************************************)
(* Properties                                                              *)
(***************************************************************************)

\* The fields of an entry a round trip is to keep: all but ID and RawLine.
Task(e) ==
    <<e.Minute, e.Hour, e.DayOfMonth, e.Month, e.DayOfWeek, e.Command,
      e.Enabled>>

\* The entries with their ids set aside.
NoIDs(entries) == [i \in 1..Len(entries) |-> [entries[i] EXCEPT !.ID = 0]]

\* a is what is left of b once some of b's elements are taken out.
RECURSIVE IsSubsequence(_, _)
IsSubsequence(a, b) ==
    IF a = <<>> THEN TRUE
    ELSE IF b = <<>> THEN FALSE
    ELSE IF Head(a) = Head(b) THEN IsSubsequence(Tail(a), Tail(b))
    ELSE IsSubsequence(a, Tail(b))

\* The last updateCrontab went through every step.
Saved == last.status = "ok"
\* The lines of the text it built, and of the crontab it merged into.
BuiltLines == ScanLines(last.content)
FreshLines == ScanLines(last.fresh)
\* The lines of the built text after the one line of each submitted entry.
Preserved == SubSeq(BuiltLines, Len(last.submitted) + 1, Len(BuiltLines))
\* What it submitted is what parseCrontabOutput reads in the crontab it
\* merged into, ids aside.
Unmodified == NoIDs(last.submitted) = NoIDs(parseCrontabOutput(last.fresh, 1))

\* C1 -- Round-trip stability: when the entries submitted are the entries
\* parsed from the crontab T the save merges into, parsing the text built
\* gives as many entries, the i-th with the minute, hour, dayOfMonth, month,
\* dayOfWeek, command and enabled of the i-th submitted.
C1_RoundTrip ==
    (Saved /\ Unmodified) =>
        /\ Len(last.confirmed) = Len(last.submitted)
        /\ \A i \in 1..Len(last.submitted) :
              Task(last.confirmed[i]) = Task(last.submitted[i])

\* A save of unmodified entries, one active whose line is not in canonical
\* form and one disabled.
C1_Witness ==
    /\ Saved /\ Unmodified
    /\ \E i, j \in 1..Len(last.submitted) :
          /\ last.submitted[i].Enabled
          /\ last.submitted[i].RawLine # FormatTask(last.submitted[i])
          /\ ~last.submitted[j].Enabled

\* C2 -- Idempotence: a save that submits the entries the save before it
\* submitted, against the text that save built, builds that text again.
C2_Idempotent == last.again => last.content = last.fresh

\* The lines of T the claim calls foreign: not a match of the task pattern,
\* not the rawLine of a submitted entry.
ForeignLines ==
    SelectSeq(FreshLines,
              LAMBDA line : ~MatchString(line)
                            /\ ~IsRawLineOf(line, last.submitted))

\* C3 -- Foreign-line preservation: the foreign lines of the crontab merged
\* into all stand unchanged in the text built, in the order they had.
C3_ForeignLinesPreserved == Saved => IsSubsequence(ForeignLines, BuiltLines)

\* The line is one of the lines.
InLines(line, lines) == \E k \in 1..Len(lines) : lines[k] = line

\* The line is one parseCrontabOutput reads as an active task.
ActiveTask(line) ==
    LET made == ParseLine(line, 0) IN made # <<>> /\ made[1].Enabled

\* The entry is an active task fetched from its rawLine with nothing but the
\* command changed since.
CommandEdited(e) ==
    LET made == ParseLine(e.RawLine, e.ID)
    IN  /\ made # <<>>
        /\ made[1].Enabled
        /\ e.Command # made[1].Command
        /\ e = [made[1] EXCEPT !.Command = e.Command]

\* C4 as the claim states it: an active task line of the crontab merged into
\* that is no submitted entry's rawLine is appended by the re-scan, and an
\* entry submitted with only its command edited has two lines in the text
\* built, its canonical line and its stale rawLine.
C4_UnclaimedTaskLinesKept ==
    Saved =>
        /\ \A k \in 1..Len(FreshLines) :
              (ActiveTask(FreshLines[k])
               /\ ~IsRawLineOf(FreshLines[k], last.submitted))
              => InLines(FreshLines[k], Preserved)
        /\ \A i \in 1..Len(last.submitted) :
              (CommandEdited(last.submitted[i])
               /\ InLines(last.submitted[i].RawLine, FreshLines))
              => /\ BuiltLines[i] = FormatTask(last.submitted[i])
                 /\ InLines(last.submitted[i].RawLine, Preserved)

\* C4 -- amended: the re-scan appends no line that matches the task pattern,
\* claimed or not; an entry submitted with only its command edited has one
\* line in the text built, its canonical line, and its stale rawLine is not
\* among the lines preserved.
C4_TaskLinesNotKept ==
    Saved =>
        LET kept == Preserved
        IN  /\ \A k \in 1..Len(kept) : ~MatchString(kept[k])
            /\ \A i \in 1..Len(last.submitted) :
                  CommandEdited(last.submitted[i])
                  => /\ BuiltLines[i] = FormatTask(last.submitted[i])
                     /\ ~InLines(last.submitted[i].RawLine, kept)

\* A save of an entry with only its command edited, its old line in the
\* crontab merged into.
C4_Witness ==
    /\ Saved
    /\ \E i \in 1..Len(last.submitted) :
          /\ CommandEdited(last.submitted[i])
          /\ InLines(last.submitted[i].RawLine, FreshLines)

\* The entry is disabled and its rawLine is an uncommented task line.
UncommentedTask(e) ==
    /\ ~e.Enabled
    /\ e.RawLine # <<>>
    /\ ~HasPrefix(e.RawLine, HashPrefix)
    /\ MatchString(e.RawLine)

\* C5 as the claim states it: the line of a disabled entry whose rawLine is
\* an uncommented task line L is "# " and L; L, when the crontab merged into
\* holds it, is no line of the text built; a crontab holding L alone becomes
\* "# L\n".
C5_ToggleFidelityNoActiveLine ==
    Saved =>
        \A i \in 1..Len(last.submitted) :
            UncommentedTask(last.submitted[i])
            => /\ BuiltLines[i] = HashSpacePrefix \o last.submitted[i].RawLine
               /\ InLines(last.submitted[i].RawLine, FreshLines)
                  => ~InLines(last.submitted[i].RawLine, BuiltLines)
               /\ (Len(last.submitted) = 1
                   /\ FreshLines = <<last.submitted[i].RawLine>>)
                  => last.content
                     = HashSpacePrefix \o last.submitted[i].RawLine \o NL

\* C5 -- amended: the line of a disabled entry whose rawLine is an
\* uncommented task line L is "# " and L, never a line rebuilt from its
\* fields; the re-scan does not carry L over: L is a line of the text built
\* only where it is the canonical line of a submitted entry that is enabled;
\* a crontab holding L alone becomes "# L\n".
C5_ToggleFidelity ==
    Saved =>
        \A i \in 1..Len(last.submitted) :
            UncommentedTask(last.submitted[i])
            => /\ BuiltLines[i] = HashSpacePrefix \o last.submitted[i].RawLine
               /\ \A k \in 1..Len(BuiltLines) :
                     BuiltLines[k] = last.submitted[i].RawLine
                     => /\ k <= Len(last.submitted)
                        /\ last.submitted[k].Enabled
                        /\ FormatTask(last.submitted[k]) = BuiltLines[k]
               /\ (Len(last.submitted) = 1
                   /\ FreshLines = <<last.submitted[i].RawLine>>)
                  => last.content
                     = HashSpacePrefix \o last.submitted[i].RawLine \o NL

\* A save that disables an entry whose line, in the crontab merged into, is
\* not the canonical line of its fields.
C5_Witness ==
    /\ Saved
    /\ \E i \in 1..Len(last.submitted) :
          /\ UncommentedTask(last.submitted[i])
          /\ InLines(last.submitted[i].RawLine, FreshLines)
          /\ FormatTask(last.submitted[i]) # last.submitted[i].RawLine

\* The line is one parseCrontabOutput skips as an environment assignment.
EnvLine(line) ==
    /\ TrimSpace(line) # <<>>
    /\ ~HasPrefix(line, HashPrefix)
    /\ Contains(line, "=")
    /\ ~HasPrefix(line, StarPrefix)

\* C6 -- Environment-assignment survival: a line of the crontab merged into
\* that the parser takes for an environment assignment makes no entry, and
\* stands in the text built unless it is a submitted entry's rawLine.
C6_EnvLinesSurvive ==
    Saved =>
        \A k \in 1..Len(FreshLines) :
            EnvLine(FreshLines[k])
            => /\ ParseLine(FreshLines[k], 0) = <<>>
               /\ ~IsRawLineOf(FreshLines[k], last.submitted)
                  => InLines(FreshLines[k], BuiltLines)

\* C7 -- Ordering: the text built holds one line for each submitted entry,
\* in the order submitted (the canonical line of an enabled entry, a comment
\* for a disabled one), and after them lines of the crontab merged into, in
\* the order they have there.
C7_Ordering ==
    Saved =>
        LET built == BuiltLines
        IN  /\ Len(built) >= Len(last.submitted)
            /\ \A i \in 1..Len(last.submitted) :
                  IF last.submitted[i].Enabled
                  THEN built[i] = FormatTask(last.submitted[i])
                  ELSE HasPrefix(built[i], HashPrefix)
            /\ IsSubsequence(SubSeq(built, Len(last.submitted) + 1, Len(built)),
                              FreshLines)

\* A save of an entry made in the browser (enabled, rawLine empty) into a
\* crontab of which two different lines are preserved.
C7_Witness ==
    /\ Saved
    /\ \E i \in 1..Len(last.submitted) :
          last.submitted[i].Enabled /\ last.submitted[i].RawLine = <<>>
    /\ Len(Preserved) >= 2
    /\ Preserved[1] # Preserved[2]

\* C8 as the claim states it: a save that has ended left no file of its own;
\* one that got a malformed body ran neither "crontab -l" nor
\* "crontab <file>"; one that ended in failure left the crontab as it was.
C8_FailureLeavesStore ==
    last.status # "none" =>
        /\ last.tmpLeft = {}
        /\ last.status = "bad_request" => last.lists = 0 /\ last.replaces = 0
        /\ last.status # "ok" => last.unchanged

\* C8 -- amended: a save that has ended left no file of its own; one that
\* got a malformed body ran neither "crontab -l" nor "crontab <file>"; one
\* that ended in failure before "crontab <file>" succeeded left the crontab
\* as it was.
C8_FailureBeforeReplaceLeavesStore ==
    last.status # "none" =>
        /\ last.tmpLeft = {}
        /\ last.status = "bad_request" => last.lists = 0 /\ last.replaces = 0
        /\ last.status \notin {"ok", "confirm_failed"} => last.unchanged

\* A save whose "crontab <file>" failed on a text that differs from the
\* crontab.
C8_Witness ==
    /\ last.status = "install_failed"
    /\ last.replaces = 1
    /\ last.content # store

\* The ids of the entries grow along the list.
IdsIncreasing(entries) ==
    \A i \in 1..(Len(entries) - 1) : entries[i].ID < entries[i + 1].ID

\* C9 -- Ids under concurrent requests: every list parseCrontabOutput returns
\* has strictly increasing ids, and nextEntryID never decreases.
C9_IdsIncreasingCounterMonotonic ==
    /\ [](\A p \in 1..NumParsers : IdsIncreasing(parsers[p].returned))
    /\ [][nextEntryID' >= nextEntryID]_vars

\* C10 -- Re-enabling keeps the task: when the entries submitted are those
\* of the crontab merged into with one disabled entry d enabled, the entries
\* parsed from the text built hold, at d's place, an enabled entry with d's
\* five schedule fields and command.
C10_ReenableKeepsTask ==
    Saved =>
        LET fetched == parseCrontabOutput(last.fresh, 1)
        IN  \A i \in 1..Len(fetched) :
                (/\ ~fetched[i].Enabled
                 /\ NoIDs(last.submitted)
                    = NoIDs([fetched EXCEPT ![i].Enabled = TRUE]))
                => /\ Len(last.confirmed) >= i
                   /\ Task(last.confirmed[i])
                      = Task([fetched[i] EXCEPT !.Enabled = TRUE])

====
